---- MODULE Spec2Model ----
(***************************************************************************)
(* express-jobly: the Company and Job models' dynamic SQL (the WHERE       *)
(* clause of findAll, the SET clause of update) and the statements they    *)
(* send to the database handle.                                            *)
(***************************************************************************)
EXTENDS Integers, Sequences, FiniteSets, TLC

(* ------------------------------------------------------------------ *)
(* Bounds of the model                                                 *)
(* ------------------------------------------------------------------ *)

\* numeric criteria and numeric patch values range over 0..MaxNum
MaxNum == 2
\* the Company.create calls that can be in progress at once
NumProcs == 2

(* ------------------------------------------------------------------ *)
(* JavaScript values.  Every value is a record of the same shape, so   *)
(* that values of different types can be compared.                     *)
(* ------------------------------------------------------------------ *)

Undef == [t |-> "undefined", n |-> 0, s |-> "", b |-> FALSE]
Null == [t |-> "null", n |-> 0, s |-> "", b |-> FALSE]
Num(k) == [t |-> "number", n |-> k, s |-> "", b |-> FALSE]
Str(x) == [t |-> "string", n |-> 0, s |-> x, b |-> FALSE]
Bool(x) == [t |-> "boolean", n |-> 0, s |-> "", b |-> x]

\* if (v): ToBoolean
Truthy(v) ==
    CASE v.t = "string" -> v.s # ""
      [] v.t = "number" -> v.n # 0
      [] v.t = "boolean" -> v.b
      [] OTHER -> FALSE

\* `${v}` : the string conversion of a template literal
TemplateStr(v) ==
    CASE v.t = "string" -> v.s
      [] v.t = "number" -> ToString(v.n)
      [] v.t = "boolean" -> (IF v.b THEN "true" ELSE "false")
      [] v.t = "null" -> "null"
      [] OTHER -> "undefined"

\* a > b on numbers, null and undefined: both sides go through ToNumber,
\* undefined becomes NaN and every comparison with NaN is false
GreaterThan(a, b) ==
    /\ a.t \in {"number", "null"}
    /\ b.t \in {"number", "null"}
    /\ a.n > b.n

(* ------------------------------------------------------------------ *)
(* Strings                                                             *)
(* ------------------------------------------------------------------ *)

\* Array.prototype.join
RECURSIVE Join(_, _)
Join(parts, sep) ==
    IF Len(parts) = 0 THEN ""
    ELSE IF Len(parts) = 1 THEN parts[1]
    ELSE parts[1] \o sep \o Join(Tail(parts), sep)

Contains(text, sub) ==
    \E i \in 0..(Len(text) - Len(sub)) : SubSeq(text, i + 1, i + Len(sub)) = sub

\* the number of occurrences of sub in text
Occurrences(text, sub) ==
    Cardinality({i \in 0..(Len(text) - Len(sub)) :
                    SubSeq(text, i + 1, i + Len(sub)) = sub})

(* ------------------------------------------------------------------ *)
(* Company.findAll: the WHERE clause                                   *)
(* ------------------------------------------------------------------ *)

\* the filtering objects a caller can pass; an absent key reads undefined.
\* The function destructures the key maxEmployess, so that key is part of
\* the input as well as maxEmployees.
CompanyNames == {Undef, Str(""), Str("net")}
NumCriteria == {Undef} \cup {Num(k) : k \in 0..MaxNum}
CompanyFilters ==
    [name : CompanyNames, minEmployees : NumCriteria,
     maxEmployees : NumCriteria, maxEmployess : NumCriteria]

CompanySelect ==
    "SELECT handle, name, description, num_employees AS \"numEmployees\", "
        \o "logo_url AS \"logoUrl\" FROM companies"

\* let queryVals = []; let whereExp = [];
NoClause == [queryVals |-> <<>>, whereExp |-> <<>>]

\* the name test written as the job filter writes its title test:
\* if (name !== undefined)
CompanyNameStepPresent(acc, name) ==
    IF name # Undef
    THEN LET vals == Append(acc.queryVals, Str("%" \o TemplateStr(name) \o "%"))
         IN  [queryVals |-> vals,
              whereExp |-> Append(acc.whereExp,
                                  "name ILIKE $" \o ToString(Len(vals)))]
    ELSE acc

\* if (name) { queryVals.push(`%${name}%`); whereExp.push(`name ILIKE $n`) }
CompanyNameStep(acc, name) ==
    IF Truthy(name)
    THEN LET vals == Append(acc.queryVals, Str("%" \o TemplateStr(name) \o "%"))
         IN  [queryVals |-> vals,
              whereExp |-> Append(acc.whereExp,
                                  "name ILIKE $" \o ToString(Len(vals)))]
    ELSE acc

\* if (minEmployees !== undefined) { push; `num_employees >= $n` }
CompanyMinStep(acc, minEmployees) ==
    IF minEmployees # Undef
    THEN LET vals == Append(acc.queryVals, minEmployees)
         IN  [queryVals |-> vals,
              whereExp |-> Append(acc.whereExp,
                                  "num_employees >= $" \o ToString(Len(vals)))]
    ELSE acc

\* if (maxEmployess !== undefined) { push; `num_employees <= $n` }
CompanyMaxStep(acc, maxEmployess) ==
    IF maxEmployess # Undef
    THEN LET vals == Append(acc.queryVals, maxEmployess)
         IN  [queryVals |-> vals,
              whereExp |-> Append(acc.whereExp,
                                  "num_employees <= $" \o ToString(Len(vals)))]
    ELSE acc

\* if (whereExp.length > 0) query += ` WHERE ` + whereExp.join(` AND `)
CompanyWhere(whereExp) ==
    IF Len(whereExp) > 0 THEN " WHERE " \o Join(whereExp, " AND ") ELSE ""

\* The synchronous part of Company.findAll, up to db.query: either the
\* BadRequestError it throws or the statement it sends.
CompanyFindAll(filtering) ==
    LET name == filtering.name
        minEmployees == filtering.minEmployees
        maxEmployess == filtering.maxEmployess
        a1 == CompanyNameStep(NoClause, name)
        a2 == CompanyMinStep(a1, minEmployees)
        a3 == CompanyMaxStep(a2, maxEmployess)
    IN  IF GreaterThan(minEmployees, maxEmployess)
        THEN [err |-> "BadRequestError", text |-> "", vals |-> <<>>]
        ELSE [err |-> "none",
              text |-> CompanySelect \o CompanyWhere(a3.whereExp)
                           \o " ORDER BY name",
              vals |-> a3.queryVals]

(* ------------------------------------------------------------------ *)
(* Job.findAll: the WHERE clause                                       *)
(* ------------------------------------------------------------------ *)

JobTitles == {Undef, Str(""), Str("ob1")}
EquityFlags == {Undef, Bool(TRUE), Bool(FALSE), Str("true")}
JobFilters ==
    [title : JobTitles, minSalary : NumCriteria, hasEquity : EquityFlags]

JobSelect ==
    "SELECT j.id, j.title, j.salary, j.equity, "
        \o "j.company_handle AS \"companyHandle\", c.name AS \"companyName\" "
        \o "FROM jobs j LEFT JOIN companies AS c ON c.handle = j.company_handle"

\* the title written into the predicate instead of pushed as a value
JobTitleStepInline(acc, title) ==
    IF title # Undef
    THEN [queryVals |-> acc.queryVals,
          whereExp |-> Append(acc.whereExp,
                              "title ILIKE '%" \o TemplateStr(title) \o "%'")]
    ELSE acc

\* if (title !== undefined) { queryValues.push(`%${title}%`); `title ILIKE $n` }
JobTitleStep(acc, title) ==
    IF title # Undef
    THEN LET vals == Append(acc.queryVals, Str("%" \o TemplateStr(title) \o "%"))
         IN  [queryVals |-> vals,
              whereExp |-> Append(acc.whereExp,
                                  "title ILIKE $" \o ToString(Len(vals)))]
    ELSE acc

\* the salary predicate numbered before its value is pushed
JobSalaryStepEarly(acc, minSalary) ==
    IF minSalary # Undef
    THEN [queryVals |-> Append(acc.queryVals, minSalary),
          whereExp |-> Append(acc.whereExp,
                              "salary >= $" \o ToString(Len(acc.queryVals)))]
    ELSE acc

\* if (minSalary !== undefined) { queryValues.push(minSalary); `salary >= $n` }
JobSalaryStep(acc, minSalary) ==
    IF minSalary # Undef
    THEN LET vals == Append(acc.queryVals, minSalary)
         IN  [queryVals |-> vals,
              whereExp |-> Append(acc.whereExp,
                                  "salary >= $" \o ToString(Len(vals)))]
    ELSE acc

\* if (hasEquity) ...: any truthy value taken for true
JobEquityStepTruthy(acc, hasEquity) ==
    IF Truthy(hasEquity)
    THEN [queryVals |-> acc.queryVals,
          whereExp |-> Append(acc.whereExp, "equity > 0")]
    ELSE acc

\* if (hasEquity === true) whereExpressions.push(`equity > 0`)
JobEquityStep(acc, hasEquity) ==
    IF hasEquity = Bool(TRUE)
    THEN [queryVals |-> acc.queryVals,
          whereExp |-> Append(acc.whereExp, "equity > 0")]
    ELSE acc

\* the WHERE keyword added whatever the number of predicates
JobWhereAlways(whereExpressions) ==
    " WHERE " \o Join(whereExpressions, " AND ")

\* if (whereExpressions.length > 0) query += " WHERE " + join(" AND ")
JobWhere(whereExpressions) ==
    IF Len(whereExpressions) > 0
    THEN " WHERE " \o Join(whereExpressions, " AND ")
    ELSE ""

\* The synchronous part of Job.findAll, up to db.query; it throws nothing.
JobFindAll(criteria) ==
    LET a1 == JobTitleStep(NoClause, criteria.title)
        a2 == JobSalaryStep(a1, criteria.minSalary)
        a3 == JobEquityStep(a2, criteria.hasEquity)
    IN  [err |-> "none",
         text |-> JobSelect \o JobWhere(a3.whereExp) \o " ORDER BY title",
         vals |-> a3.queryVals]

(* ------------------------------------------------------------------ *)
(* sqlForPartialUpdate (helpers/sql.js)                                *)
(* ------------------------------------------------------------------ *)

\* A patch is the sequence of its entries [k, v] in the iteration order of
\* the object's keys; no key occurs twice.
\* values: field -> the values the field takes
PatchEntries(values) ==
    UNION {{[k |-> f, v |-> x] : x \in values[f]} : f \in DOMAIN values}

Patches(values) ==
    {p \in UNION {[1..n -> PatchEntries(values)] :
                      n \in 0..Cardinality(DOMAIN values)} :
        \A i, j \in 1..Len(p) : i # j => p[i].k # p[j].k}

\* the column of a field: the override table's value if the field is a key
\* of the table, the field itself otherwise
ColumnFor(field, jsToSql) ==
    IF field \in DOMAIN jsToSql THEN jsToSql[field] ELSE field

SqlForPartialUpdate(dataToUpdate, jsToSql) ==
    IF Len(dataToUpdate) = 0
    THEN [err |-> "BadRequestError", setCols |-> "", values |-> <<>>]
    ELSE LET cols == [i \in 1..Len(dataToUpdate) |->
                         "\"" \o ColumnFor(dataToUpdate[i].k, jsToSql)
                              \o "\"=$" \o ToString(i)]
         IN  [err |-> "none",
              setCols |-> Join(cols, ", "),
              values |-> [i \in 1..Len(dataToUpdate) |-> dataToUpdate[i].v]]

(* ------------------------------------------------------------------ *)
(* Company.update and Job.update: the UPDATE statement                 *)
(* ------------------------------------------------------------------ *)

CompanyPatchValues ==
    [name |-> {Str("New"), Str("Net")}, numEmployees |-> {Num(0), Num(MaxNum)}]
CompanyPatches == Patches(CompanyPatchValues)
\* the handles update is called with: a company of the table, and none
CompanyKeys == {Str("c1"), Str("nope")}

JobPatchValues ==
    [salary |-> {Num(0), Num(MaxNum)}, equity |-> {Str("0"), Str("0.5")}]
JobPatches == Patches(JobPatchValues)
\* the ids update is called with: a job of the table, and none
JobKeys == {Num(1), Num(0)}

\* Company.update with the numEmployees entry of its table left out
CompanyJsToSqlNoEmployees == [logoUrl |-> "logo_url"]

\* the override table Company.update passes
CompanyJsToSql == [numEmployees |-> "num_employees", logoUrl |-> "logo_url"]

\* the override table Job.update passes: {}
JobJsToSql == [f \in {} |-> ""]

\* const handleVarIdx = "$" + (values.length + 1)
CompanyHandleVarIdx(values) == "$" \o ToString(Len(values) + 1)

\* [handle, ...values]
CompanyUpdateValsKeyFirst(values, handle) == <<handle>> \o values

\* [...values, handle]
CompanyUpdateVals(values, handle) == Append(values, handle)

\* The synchronous part of Company.update, up to db.query: the error
\* sqlForPartialUpdate throws, or the statement sent.
CompanyUpdate(handle, data) ==
    LET r == SqlForPartialUpdate(data, CompanyJsToSql)
    IN  IF r.err # "none"
        THEN [err |-> r.err, text |-> "", vals |-> <<>>]
        ELSE [err |-> "none",
              text |-> "UPDATE companies SET " \o r.setCols
                           \o " WHERE handle = " \o CompanyHandleVarIdx(r.values)
                           \o " RETURNING handle, name, description, "
                           \o "num_employees AS \"numEmployees\", "
                           \o "logo_url AS \"logoUrl\"",
              vals |-> CompanyUpdateVals(r.values, handle)]

\* const idVarIdx = "$" + (values.length + 1)
JobIdVarIdx(values) == "$" \o ToString(Len(values) + 1)

\* [...values, id]
JobUpdateVals(values, id) == Append(values, id)

\* Job.update going on to db.query whatever sqlForPartialUpdate did
JobUpdateUnchecked(id, data) ==
    LET r == SqlForPartialUpdate(data, JobJsToSql)
    IN  [err |-> "none",
         text |-> "UPDATE jobs SET " \o r.setCols
                      \o " WHERE id = " \o JobIdVarIdx(r.values)
                      \o " RETURNING id, title, salary, equity, "
                      \o "company_handle AS \"companyHandle\"",
         vals |-> JobUpdateVals(r.values, id)]

\* The synchronous part of Job.update, up to db.query.
JobUpdate(id, data) ==
    LET r == SqlForPartialUpdate(data, JobJsToSql)
    IN  IF r.err # "none"
        THEN [err |-> r.err, text |-> "", vals |-> <<>>]
        ELSE [err |-> "none",
              text |-> "UPDATE jobs SET " \o r.setCols
                           \o " WHERE id = " \o JobIdVarIdx(r.values)
                           \o " RETURNING id, title, salary, equity, "
                           \o "company_handle AS \"companyHandle\"",
              vals |-> JobUpdateVals(r.values, id)]

(* ------------------------------------------------------------------ *)
(* The database handle: db.query(text, vals) on the statements above   *)
(* ------------------------------------------------------------------ *)

UpperCase == "ABCDEFGHIJKLMNOPQRSTUVWXYZ"
LowerCase == "abcdefghijklmnopqrstuvwxyz"

LowerChar(c) ==
    IF \E i \in 1..Len(UpperCase) : SubSeq(UpperCase, i, i) = c
    THEN LET i == CHOOSE i \in 1..Len(UpperCase) : SubSeq(UpperCase, i, i) = c
         IN  SubSeq(LowerCase, i, i)
    ELSE c

RECURSIVE Lower(_)
Lower(text) ==
    IF Len(text) = 0 THEN ""
    ELSE LowerChar(SubSeq(text, 1, 1)) \o Lower(SubSeq(text, 2, Len(text)))

\* cell ILIKE pattern, for a pattern %inner% whose inner part holds no
\* wildcard; a NULL cell matches nothing
ILike(cell, pattern) ==
    /\ cell.t = "string"
    /\ pattern.t = "string"
    /\ Contains(Lower(cell.s),
                Lower(SubSeq(pattern.s, 2, Len(pattern.s) - 1)))

\* cell >= param and cell <= param; a comparison with NULL is not true
SqlGe(cell, param) ==
    cell.t = "number" /\ param.t = "number" /\ cell.n >= param.n
SqlLe(cell, param) ==
    cell.t = "number" /\ param.t = "number" /\ cell.n <= param.n

\* equity > 0 on the NUMERIC column, whose cells are read as strings
EquityPositive(cell) == cell.t = "string" /\ cell.s # "0"

\* the placeholder $k
Ph(k) == "$" \o ToString(k)

\* the companies table at start: handle -> row, by column name (c1 as in
\* the tests' fixture, and a second company without an employee count)
InitCompanies ==
    [h \in {"c1", "c2"} |->
        IF h = "c1" THEN [name |-> Str("C1"), num_employees |-> Num(1)]
        ELSE [name |-> Str("Net2"), num_employees |-> Null]]

\* the jobs table at start: id -> row, by column name
InitJobs ==
    [i \in {1, 2} |->
        IF i = 1
        THEN [title |-> Str("Job1"), salary |-> Num(1), equity |-> Str("0.1")]
        ELSE [title |-> Str("Job4"), salary |-> Null, equity |-> Null]]

\* ... AS "numEmployees": a companies row as the statements return it
CompanyOut(h, row) ==
    [handle |-> Str(h), name |-> row.name, numEmployees |-> row.num_employees]

JobOut(i, row) ==
    [id |-> Num(i), title |-> row.title, salary |-> row.salary,
     equity |-> row.equity]

\* the WHERE clause of the companies listing on one row
CompanyRowMatches(row, text, vals) ==
    \A k \in 1..Len(vals) :
        /\ Contains(text, "name ILIKE " \o Ph(k)) => ILike(row.name, vals[k])
        /\ Contains(text, "num_employees >= " \o Ph(k))
               => SqlGe(row.num_employees, vals[k])
        /\ Contains(text, "num_employees <= " \o Ph(k))
               => SqlLe(row.num_employees, vals[k])

\* the rows of SELECT ... FROM companies [WHERE ...]
DbSelectCompanies(table, text, vals) ==
    {CompanyOut(h, table[h]) :
        h \in {x \in DOMAIN table : CompanyRowMatches(table[x], text, vals)}}

\* the WHERE clause of the jobs listing on one row
JobRowMatches(row, text, vals) ==
    /\ \A k \in 1..Len(vals) :
        /\ Contains(text, "title ILIKE " \o Ph(k)) => ILike(row.title, vals[k])
        /\ Contains(text, "salary >= " \o Ph(k)) => SqlGe(row.salary, vals[k])
    /\ Contains(text, "equity > 0") => EquityPositive(row.equity)

DbSelectJobs(table, text, vals) ==
    {JobOut(i, table[i]) :
        i \in {x \in DOMAIN table : JobRowMatches(table[x], text, vals)}}

\* SET "col"=$k, ...: the row after the assignments of the statement
RowAfterSet(row, text, vals) ==
    [c \in DOMAIN row |->
        LET ks == {k \in 1..Len(vals) :
                      Contains(text, "\"" \o c \o "\"=" \o Ph(k))}
        IN  IF ks = {} THEN row[c] ELSE vals[CHOOSE k \in ks : TRUE]]

\* WHERE <keycol> = $k: the value the key is matched with
KeyParam(text, keycol, vals) ==
    LET ks == {k \in 1..Len(vals) :
                  Contains(text, " WHERE " \o keycol \o " = " \o Ph(k))}
    IN  IF ks = {} THEN Undef ELSE vals[CHOOSE k \in ks : TRUE]

\* UPDATE companies SET ... WHERE handle = $k: the table afterwards
DbUpdateCompanies(table, text, vals) ==
    [h \in DOMAIN table |->
        IF Str(h) = KeyParam(text, "handle", vals)
        THEN RowAfterSet(table[h], text, vals)
        ELSE table[h]]

\* ... RETURNING: the rows the statement changed
DbUpdatedCompanies(table, text, vals) ==
    {CompanyOut(h, RowAfterSet(table[h], text, vals)) :
        h \in {x \in DOMAIN table : Str(x) = KeyParam(text, "handle", vals)}}

DbUpdateJobs(table, text, vals) ==
    [i \in DOMAIN table |->
        IF Num(i) = KeyParam(text, "id", vals)
        THEN RowAfterSet(table[i], text, vals)
        ELSE table[i]]

DbUpdatedJobs(table, text, vals) ==
    {JobOut(i, RowAfterSet(table[i], text, vals)) :
        i \in {x \in DOMAIN table : Num(x) = KeyParam(text, "id", vals)}}

(* ------------------------------------------------------------------ *)
(* State                                                               *)
(* ------------------------------------------------------------------ *)

VARIABLES
    companies,  \* the companies table
    jobs,       \* the jobs table
    pc,         \* the call: "idle", "awaiting" (statement sent), "done"
    op,         \* the operation called
    arg,        \* its argument(s)
    sent,       \* the statements the call sent to db.query, in order
    err,        \* the error the call threw, "none" if none
    result,     \* the rows the call returned
    creates     \* the Company.create calls in progress, by caller

vars == <<companies, jobs, pc, op, arg, sent, err, result, creates>>

\* the callers of Company.create
Procs == 1..NumProcs

\* no Company.create call in progress
NoCreate ==
    [pc |-> "idle", data |-> Undef, sent |-> <<>>, err |-> "none",
     result |-> {}]

Init ==
    /\ companies = InitCompanies
    /\ jobs = InitJobs
    /\ pc = "idle"
    /\ op = "none"
    /\ arg = Undef
    /\ sent = <<>>
    /\ err = "none"
    /\ result = {}
    /\ creates = [p \in Procs |-> NoCreate]

\* a call runs to its first db.query, or to the error it throws before it
Start(name, input, r) ==
    /\ op' = name
    /\ arg' = input
    /\ err' = r.err
    /\ result' = {}
    /\ IF r.err # "none"
       THEN pc' = "done" /\ sent' = <<>>
       ELSE pc' = "awaiting" /\ sent' = <<[text |-> r.text, vals |-> r.vals]>>
    /\ UNCHANGED <<companies, jobs, creates>>

CompanyFindAllCall ==
    /\ pc = "idle"
    /\ \E filtering \in CompanyFilters :
        Start("Company.findAll", filtering, CompanyFindAll(filtering))

\* const companiesRes = await db.query(query, queryVals); return rows
CompanyFindAllReturn ==
    /\ pc = "awaiting"
    /\ op = "Company.findAll"
    /\ result' = DbSelectCompanies(companies, sent[1].text, sent[1].vals)
    /\ pc' = "done"
    /\ UNCHANGED <<companies, jobs, op, arg, sent, err, creates>>

JobFindAllCall ==
    /\ pc = "idle"
    /\ \E criteria \in JobFilters :
        Start("Job.findAll", criteria, JobFindAll(criteria))

JobFindAllReturn ==
    /\ pc = "awaiting"
    /\ op = "Job.findAll"
    /\ result' = DbSelectJobs(jobs, sent[1].text, sent[1].vals)
    /\ pc' = "done"
    /\ UNCHANGED <<companies, jobs, op, arg, sent, err, creates>>

CompanyUpdateCall ==
    /\ pc = "idle"
    /\ \E handle \in CompanyKeys, data \in CompanyPatches :
        Start("Company.update", [key |-> handle, data |-> data],
              CompanyUpdate(handle, data))

\* const result = await db.query(querySql, [...values, handle]);
\* if (!company) throw new NotFoundError
CompanyUpdateReturn ==
    /\ pc = "awaiting"
    /\ op = "Company.update"
    /\ LET rows == DbUpdatedCompanies(companies, sent[1].text, sent[1].vals)
       IN  /\ companies' = DbUpdateCompanies(companies, sent[1].text, sent[1].vals)
           /\ IF rows = {}
              THEN err' = "NotFoundError" /\ result' = {}
              ELSE err' = "none" /\ result' = rows
    /\ pc' = "done"
    /\ UNCHANGED <<jobs, op, arg, sent, creates>>

JobUpdateCall ==
    /\ pc = "idle"
    /\ \E id \in JobKeys, data \in JobPatches :
        Start("Job.update", [key |-> id, data |-> data], JobUpdate(id, data))

JobUpdateReturn ==
    /\ pc = "awaiting"
    /\ op = "Job.update"
    /\ LET rows == DbUpdatedJobs(jobs, sent[1].text, sent[1].vals)
       IN  /\ jobs' = DbUpdateJobs(jobs, sent[1].text, sent[1].vals)
           /\ IF rows = {}
              THEN err' = "NotFoundError" /\ result' = {}
              ELSE err' = "none" /\ result' = rows
    /\ pc' = "done"
    /\ UNCHANGED <<companies, op, arg, sent, creates>>

\* the call has settled: its caller takes the rows or the error, and the
\* statement and its values are dropped with the call's frame
Settle ==
    /\ pc = "done"
    /\ pc' = "idle"
    /\ op' = "none"
    /\ arg' = Undef
    /\ sent' = <<>>
    /\ err' = "none"
    /\ result' = {}
    /\ UNCHANGED <<companies, jobs, creates>>

Next ==
    \/ Settle
    \/ JobFindAllCall
    \/ JobFindAllReturn
    \/ CompanyFindAllCall
    \/ CompanyFindAllReturn
    \/ CompanyUpdateCall
    \/ CompanyUpdateReturn
    \/ JobUpdateCall
    \/ JobUpdateReturn

Spec == Init /\ [][Next]_vars

(* ------------------------------------------------------------------ *)
(* Reading a statement back                                            *)
(* ------------------------------------------------------------------ *)

\* the statement the call in progress sent
Text == sent[1].text
Vals == sent[1].vals

\* the position of the first occurrence of sub in text, 0 if there is none
IndexOf(text, sub) ==
    LET at == {i \in 1..(Len(text) - Len(sub) + 1) :
                  SubSeq(text, i, i + Len(sub) - 1) = sub}
    IN  IF at = {} THEN 0 ELSE CHOOSE i \in at : \A j \in at : i <= j

Listing == op \in {"Company.findAll", "Job.findAll"}
Updating == op \in {"Company.update", "Job.update"}

(* ------------------------------------------------------------------ *)
(* C1                                                                  *)
(* ------------------------------------------------------------------ *)

\* C1: a Company.findAll call whose criteria hold both minEmployees and
\* maxEmployees with minEmployees > maxEmployees, whatever the name, throws
\* BadRequestError and sends no statement to the database.
C1_ContradictoryBoundsRejected ==
    (/\ op = "Company.findAll"
     /\ arg.minEmployees.t = "number"
     /\ arg.maxEmployees.t = "number"
     /\ arg.minEmployees.n > arg.maxEmployees.n)
        => (err = "BadRequestError" /\ sent = <<>>)

(* ------------------------------------------------------------------ *)
(* C2                                                                  *)
(* ------------------------------------------------------------------ *)

\* C2: a Company.findAll call whose criteria hold maxEmployees, the bounds
\* not being contradictory, sends a statement whose WHERE clause holds
\* num_employees <= $k with maxEmployees at position k of the values, and
\* the rows it returns have at most that many employees.
C2_MaxEmployeesNarrows ==
    (/\ op = "Company.findAll"
     /\ arg.maxEmployees.t = "number"
     /\ ~(arg.minEmployees.t = "number"
          /\ arg.minEmployees.n > arg.maxEmployees.n))
        => /\ err = "none"
           /\ \E k \in 1..Len(Vals) :
                 /\ Contains(Text, "num_employees <= " \o Ph(k))
                 /\ Vals[k] = arg.maxEmployees
           /\ pc = "done" =>
                 \A r \in result :
                     /\ r.numEmployees.t = "number"
                     /\ r.numEmployees.n <= arg.maxEmployees.n

(* ------------------------------------------------------------------ *)
(* C3                                                                  *)
(* ------------------------------------------------------------------ *)

\* C3: sqlForPartialUpdate on an empty patch fails with BadRequestError for
\* every override table, and an update (Company.update, Job.update) called
\* with an empty patch ends with that error having sent no statement,
\* whether or not the key exists.
C3_EmptyPatchRejected ==
    /\ \A jsToSql \in {JobJsToSql, CompanyJsToSql, [name |-> "name"]} :
           SqlForPartialUpdate(<<>>, jsToSql).err = "BadRequestError"
    /\ (Updating /\ Len(arg.data) = 0)
           => (pc = "done" /\ err = "BadRequestError" /\ sent = <<>>)

\* a Job.update of an existing job with an empty patch has ended
C3_Witness ==
    /\ op = "Job.update"
    /\ arg.data = <<>>
    /\ \E i \in DOMAIN jobs : Num(i) = arg.key
    /\ pc = "done"

(* ------------------------------------------------------------------ *)
(* C4                                                                  *)
(* ------------------------------------------------------------------ *)

\* the SET clause of the UPDATE statement sent
SetClause ==
    SubSeq(Text, IndexOf(Text, " SET ") + Len(" SET "),
           IndexOf(Text, " WHERE ") - 1)

\* text.split(sep)
RECURSIVE Split(_, _)
Split(text, sep) ==
    LET i == IndexOf(text, sep)
    IN  IF i = 0 THEN <<text>>
        ELSE <<SubSeq(text, 1, i - 1)>>
                 \o Split(SubSeq(text, i + Len(sep), Len(text)), sep)

\* the columns a field of this model's patches can be stored in: the field
\* itself, or its snake-case storage name
ColumnsOf(field) ==
    IF field = "numEmployees" THEN {"numEmployees", "num_employees"}
    ELSE {field}

\* C4: an update with a patch of n > 0 keys sends a SET clause of exactly n
\* fragments and n placeholders $1..$n, the i-th fragment assigning $i to
\* the column of the i-th key of the patch, and the first n values of the
\* statement are the patch values in the same order (the key follows them).
C4_SetClauseAligned ==
    (Updating /\ Len(arg.data) > 0) =>
        LET n == Len(arg.data)
            frags == Split(SetClause, ", ")
        IN  /\ sent # <<>>
            /\ Len(frags) = n
            /\ Occurrences(SetClause, "$") = n
            /\ \A i \in 1..n :
                   \E c \in ColumnsOf(arg.data[i].k) :
                       frags[i] = "\"" \o c \o "\"=" \o Ph(i)
            /\ LET r == SqlForPartialUpdate(arg.data,
                                             IF op = "Company.update"
                                             THEN CompanyJsToSql
                                             ELSE JobJsToSql)
               IN  r.setCols = SetClause /\ Len(r.values) = n
            /\ Len(Vals) = n + 1
            /\ \A i \in 1..n : Vals[i] = arg.data[i].v
            /\ Vals[n + 1] = arg.key
            /\ Contains(Text, " = " \o Ph(n + 1) \o " RETURNING")

\* a Company.update with a patch of two keys, numEmployees first, has ended
C4_Witness ==
    /\ op = "Company.update"
    /\ Len(arg.data) = 2
    /\ arg.data[1].k = "numEmployees"
    /\ pc = "done"
    /\ err = "none"

(* ------------------------------------------------------------------ *)
(* C5                                                                  *)
(* ------------------------------------------------------------------ *)

\* C5: in the SET clause, the column of a patch key is the override table's
\* value exactly when the key is a key of the table (Company.update:
\* numEmployees -> num_employees, logoUrl -> logo_url; Job.update: none) and
\* the key itself otherwise; an override entry whose key is not in the patch
\* adds nothing to the clause.
C5_OverrideApplied ==
    (Updating /\ Len(arg.data) > 0) =>
        LET keys == {arg.data[i].k : i \in 1..Len(arg.data)}
        IN  /\ sent # <<>>
            /\ \A i \in 1..Len(arg.data) :
                   LET k == arg.data[i].k
                       col == IF op = "Company.update" /\ k = "numEmployees"
                              THEN "num_employees"
                              ELSE IF op = "Company.update" /\ k = "logoUrl"
                              THEN "logo_url"
                              ELSE k
                   IN  Contains(SetClause, "\"" \o col \o "\"=" \o Ph(i))
            /\ Occurrences(SetClause, "=") = Len(arg.data)
            /\ ~Contains(SetClause, "logo_url")
            /\ Contains(SetClause, "num_employees")
                   <=> (op = "Company.update" /\ "numEmployees" \in keys)
            /\ ~Contains(SetClause, "numEmployees")

\* a Company.update whose patch holds the overridden key numEmployees and
\* the plain key name has reached the database
C5_Witness ==
    /\ op = "Company.update"
    /\ Len(arg.data) = 2
    /\ arg.data[2].k = "numEmployees"
    /\ pc = "done"
    /\ result # {}

(* ------------------------------------------------------------------ *)
(* C6                                                                  *)
(* ------------------------------------------------------------------ *)

\* the keys of a listing's criteria that are present (not undefined)
PresentKeys(criteria) == {k \in DOMAIN criteria : criteria[k] # Undef}

\* the keys of a patch, in order
PatchKeys(data) == [i \in 1..Len(data) |-> data[i].k]

\* C6 as stated: the statement text does not change with the values: every
\* other input of the same operation with the same set of present fields
\* (criteria) or keys (patch) gives the statement text this call sent.
C6_SameFieldsSameText ==
    sent # <<>> =>
        /\ op = "Job.findAll" =>
               \A c \in JobFilters :
                   PresentKeys(c) = PresentKeys(arg)
                       => JobFindAll(c).text = Text
        /\ op = "Company.findAll" =>
               \A c \in CompanyFilters :
                   (PresentKeys(c) = PresentKeys(arg)
                    /\ CompanyFindAll(c).err = "none")
                       => CompanyFindAll(c).text = Text
        /\ op = "Company.update" =>
               \A d \in CompanyPatches :
                   ({d[i].k : i \in 1..Len(d)}
                        = {arg.data[i].k : i \in 1..Len(arg.data)})
                       => CompanyUpdate(arg.key, d).text = Text
        /\ op = "Job.update" =>
               \A d \in JobPatches :
                   ({d[i].k : i \in 1..Len(d)}
                        = {arg.data[i].k : i \in 1..Len(arg.data)})
                       => JobUpdate(arg.key, d).text = Text

\* the WHERE clause of the job listing, by the predicates triggered
JobClauseFor(title, salary, equity) ==
    CASE  title /\  salary /\  equity ->
              " WHERE title ILIKE $1 AND salary >= $2 AND equity > 0"
      []  title /\  salary /\ ~equity -> " WHERE title ILIKE $1 AND salary >= $2"
      []  title /\ ~salary /\  equity -> " WHERE title ILIKE $1 AND equity > 0"
      []  title /\ ~salary /\ ~equity -> " WHERE title ILIKE $1"
      [] ~title /\  salary /\  equity -> " WHERE salary >= $1 AND equity > 0"
      [] ~title /\  salary /\ ~equity -> " WHERE salary >= $1"
      [] ~title /\ ~salary /\  equity -> " WHERE equity > 0"
      [] OTHER -> ""

\* the WHERE clause of the company listing, by the predicates triggered
CompanyClauseFor(name, min, max) ==
    CASE  name /\  min /\  max ->
              " WHERE name ILIKE $1 AND num_employees >= $2 AND num_employees <= $3"
      []  name /\  min /\ ~max -> " WHERE name ILIKE $1 AND num_employees >= $2"
      []  name /\ ~min /\  max -> " WHERE name ILIKE $1 AND num_employees <= $2"
      []  name /\ ~min /\ ~max -> " WHERE name ILIKE $1"
      [] ~name /\  min /\  max ->
              " WHERE num_employees >= $1 AND num_employees <= $2"
      [] ~name /\  min /\ ~max -> " WHERE num_employees >= $1"
      [] ~name /\ ~min /\  max -> " WHERE num_employees <= $1"
      [] OTHER -> ""

\* the SET clause of an update, by the key sequence of the patch
SetClauseFor(keys) ==
    CASE keys = <<"name">> -> "\"name\"=$1"
      [] keys = <<"numEmployees">> -> "\"num_employees\"=$1"
      [] keys = <<"name", "numEmployees">> -> "\"name\"=$1, \"num_employees\"=$2"
      [] keys = <<"numEmployees", "name">> -> "\"num_employees\"=$1, \"name\"=$2"
      [] keys = <<"salary">> -> "\"salary\"=$1"
      [] keys = <<"equity">> -> "\"equity\"=$1"
      [] keys = <<"salary", "equity">> -> "\"salary\"=$1, \"equity\"=$2"
      [] keys = <<"equity", "salary">> -> "\"equity\"=$1, \"salary\"=$2"
      [] OTHER -> "?"

\* C6 (amended): the statement text holds no filter or patch value: it is
\* the fixed text that belongs to the predicates the input triggers (title,
\* minSalary, minEmployees, the max bound: not undefined; name: a non-empty
\* string; hasEquity: strictly true) or to the key sequence of the patch,
\* whatever the values are, so two calls that trigger the same predicates
\* (have the same key sequence) send the identical text; the values are in
\* the value list, one per placeholder.
C6_TextFixedByTriggers ==
    sent # <<>> =>
        /\ op = "Job.findAll" =>
               Text = JobSelect
                          \o JobClauseFor(arg.title # Undef,
                                          arg.minSalary # Undef,
                                          arg.hasEquity = Bool(TRUE))
                          \o " ORDER BY title"
        /\ op = "Company.findAll" =>
               Text = CompanySelect
                          \o CompanyClauseFor(arg.name.s # "",
                                              arg.minEmployees # Undef,
                                              arg.maxEmployess # Undef)
                          \o " ORDER BY name"
        /\ Updating => SetClause = SetClauseFor(PatchKeys(arg.data))
        /\ Len(Vals) = Occurrences(Text, "$")

\* a job listing with a title and a minimum salary has returned
C6_Witness ==
    /\ op = "Job.findAll"
    /\ arg.title = Str("ob1")
    /\ arg.minSalary = Num(MaxNum)
    /\ pc = "done"

(* ------------------------------------------------------------------ *)
(* C7                                                                  *)
(* ------------------------------------------------------------------ *)

\* C7: in Job.findAll, hasEquity strictly true adds the predicate
\* equity > 0, no value and no placeholder, and the rows returned have
\* equity above zero; any other hasEquity (false, absent, not a boolean)
\* adds nothing: the statement is the one sent with hasEquity absent.
C7_EquityOnlyWhenTrue ==
    op = "Job.findAll" =>
        LET valued == {k \in {"title", "minSalary"} : arg[k] # Undef}
            absent == JobFindAll([arg EXCEPT !.hasEquity = Undef])
        IN  /\ err = "none"
            /\ Contains(Text, "equity > 0") <=> arg.hasEquity = Bool(TRUE)
            /\ Len(Vals) = Cardinality(valued)
            /\ Occurrences(Text, "$") = Cardinality(valued)
            /\ Vals = absent.vals
            /\ arg.hasEquity # Bool(TRUE) => Text = absent.text
            /\ (arg.hasEquity = Bool(TRUE) /\ pc = "done") =>
                   \A r \in result :
                       r.equity.t = "string" /\ r.equity.s # "0"

\* a job listing with hasEquity true and nothing else has returned rows
C7_Witness ==
    /\ op = "Job.findAll"
    /\ arg.hasEquity = Bool(TRUE)
    /\ arg.title = Undef
    /\ arg.minSalary = Undef
    /\ pc = "done"
    /\ result # {}

(* ------------------------------------------------------------------ *)
(* C8                                                                  *)
(* ------------------------------------------------------------------ *)

\* C8: Job.findAll and Company.findAll called with no criteria throw
\* nothing and send the bare SELECT, without WHERE, and no values; the
\* listing returns every row of the table.
C8_NoCriteriaListsAll ==
    /\ (op = "Job.findAll" /\ PresentKeys(arg) = {}) =>
           /\ err = "none"
           /\ Text = JobSelect \o " ORDER BY title"
           /\ ~Contains(Text, "WHERE")
           /\ Vals = <<>>
           /\ pc = "done" => result = {JobOut(i, jobs[i]) : i \in DOMAIN jobs}
    /\ (op = "Company.findAll" /\ PresentKeys(arg) = {}) =>
           /\ err = "none"
           /\ Text = CompanySelect \o " ORDER BY name"
           /\ ~Contains(Text, "WHERE")
           /\ Vals = <<>>
           /\ pc = "done" =>
                  result = {CompanyOut(h, companies[h]) : h \in DOMAIN companies}

\* a job listing without criteria has returned both jobs
C8_Witness ==
    /\ op = "Job.findAll"
    /\ PresentKeys(arg) = {}
    /\ pc = "done"
    /\ Cardinality(result) = Cardinality(DOMAIN jobs)

(* ------------------------------------------------------------------ *)
(* C9                                                                  *)
(* ------------------------------------------------------------------ *)

\* C9: in the statement of a listing that was accepted, the placeholders
\* are $1..$m, each once and in this order, m being the number of values;
\* they go to the predicates in check order (job: title, minSalary;
\* company: name, minEmployees, the max bound), and the value at position k
\* is the value of the criterion whose predicate holds $k (wrapped in %
\* for the two ILIKE predicates).
C9_PlaceholdersSequential ==
    (Listing /\ sent # <<>>) =>
        LET m == Len(Vals)
            At(pred) == CHOOSE k \in 0..m :
                            IF k = 0 THEN \A j \in 1..m : ~Contains(Text, pred \o Ph(j))
                            ELSE Contains(Text, pred \o Ph(k))
        IN  /\ Occurrences(Text, "$") = m
            /\ \A k \in 1..m : Occurrences(Text, Ph(k)) = 1
            /\ \A k \in 1..(m - 1) : IndexOf(Text, Ph(k)) < IndexOf(Text, Ph(k + 1))
            /\ op = "Job.findAll" =>
                   LET t == At("title ILIKE ")
                       s == At("salary >= ")
                   IN  /\ arg.title # Undef =>
                              (t = 1 /\ Vals[t] = Str("%" \o arg.title.s \o "%"))
                       /\ arg.minSalary # Undef =>
                              (s = t + 1 /\ Vals[s] = arg.minSalary)
                       /\ m = (IF arg.title # Undef THEN 1 ELSE 0)
                                + (IF arg.minSalary # Undef THEN 1 ELSE 0)
            /\ op = "Company.findAll" =>
                   LET n == At("name ILIKE ")
                       lo == At("num_employees >= ")
                       hi == At("num_employees <= ")
                   IN  /\ n \in {0, 1}
                       /\ n = 1 => Vals[n] = Str("%" \o arg.name.s \o "%")
                       /\ arg.minEmployees # Undef =>
                              (lo = n + 1 /\ Vals[lo] = arg.minEmployees)
                       /\ arg.minEmployees = Undef => lo = 0
                       /\ hi # 0 =>
                              (hi = m /\ hi > lo /\ hi > n
                               /\ Vals[hi] = arg.maxEmployess)
                       /\ m = n + (IF lo # 0 THEN 1 ELSE 0)
                                + (IF hi # 0 THEN 1 ELSE 0)

\* a company listing with three placeholders has returned
C9_Witness ==
    /\ op = "Company.findAll"
    /\ sent # <<>>
    /\ Len(Vals) = 3
    /\ pc = "done"

(* ------------------------------------------------------------------ *)
(* C10                                                                 *)
(* ------------------------------------------------------------------ *)

\* C10 as stated: Company.findAll treats name as Job.findAll treats title:
\* whenever name is not undefined, the empty string included, the statement
\* holds name ILIKE $1 and the first value is %<name>%; only an absent name
\* adds no predicate.
C10_NamePresenceRule ==
    (op = "Company.findAll" /\ sent # <<>>) =>
        IF arg.name # Undef
        THEN /\ Contains(Text, "name ILIKE $1")
             /\ Len(Vals) >= 1
             /\ Vals[1] = Str("%" \o arg.name.s \o "%")
        ELSE ~Contains(Text, "name ILIKE")

\* C10 (amended): Company.findAll tests name for truthiness, Job.findAll
\* tests title for presence.  A non-empty name adds the value %<name>% and
\* the predicate name ILIKE $1; an absent name and the empty string add no
\* predicate and no value.  A title that is not undefined, the empty string
\* included, adds the value %<title>% and the predicate title ILIKE $1.
C10_NameTruthyTitlePresent ==
    /\ (op = "Company.findAll" /\ sent # <<>>) =>
           IF arg.name.t = "string" /\ arg.name.s # ""
           THEN /\ Contains(Text, "name ILIKE $1")
                /\ Vals[1] = Str("%" \o arg.name.s \o "%")
           ELSE /\ ~Contains(Text, "name ILIKE")
                /\ \A k \in 1..Len(Vals) : Vals[k].t # "string"
    /\ op = "Job.findAll" =>
           IF arg.title # Undef
           THEN /\ Contains(Text, "title ILIKE $1")
                /\ Vals[1] = Str("%" \o arg.title.s \o "%")
           ELSE ~Contains(Text, "title ILIKE")

\* a company listing with the empty string for name and a minimum has
\* returned
C10_Witness ==
    /\ op = "Company.findAll"
    /\ arg.name = Str("")
    /\ arg.minEmployees # Undef
    /\ pc = "done"

(* ------------------------------------------------------------------ *)
(* Company.create, called concurrently                                 *)
(* ------------------------------------------------------------------ *)

\* the data create is called with: the handle of a company of the table and
\* two new handles
CreateHandles == {Str("c1"), Str("c3"), Str("c4")}
CreateData ==
    [handle : CreateHandles, name : {Str("New")}, description : {Str("Desc")},
     numEmployees : {Num(0), Null}, logoUrl : {Null}]

\* the duplicate check: SELECT handle FROM companies WHERE handle = $1
DuplicateCheck(data) ==
    [text |-> "SELECT handle FROM companies WHERE handle = $1",
     vals |-> <<data.handle>>]

\* INSERT INTO companies (...) VALUES ($1, $2, $3, $4, $5) RETURNING ...
CompanyInsert(data) ==
    [text |-> "INSERT INTO companies "
                  \o "(handle, name, description, num_employees, logo_url) "
                  \o "VALUES ($1, $2, $3, $4, $5) "
                  \o "RETURNING handle, name, description, "
                  \o "num_employees AS \"numEmployees\", logo_url AS \"logoUrl\"",
     vals |-> <<data.handle, data.name, data.description, data.numEmployees,
                data.logoUrl>>]

\* the rows of SELECT handle FROM companies WHERE handle = $1
DbSelectHandle(table, vals) ==
    {[handle |-> Str(h)] : h \in {x \in DOMAIN table : Str(x) = vals[1]}}

\* the uniqueness constraint on companies.handle: an INSERT of a handle the
\* table holds is refused by the database
HandleTaken(table, vals) == \E h \in DOMAIN table : Str(h) = vals[1]

\* the table after INSERT ... VALUES ($1, $2, $3, $4, $5)
DbInsertCompany(table, vals) ==
    [h \in DOMAIN table \cup {vals[1].s} |->
        IF h \in DOMAIN table THEN table[h]
        ELSE [name |-> vals[2], num_employees |-> vals[4]]]

\* static async create(data): up to the first await db.query
CreateCall(p) ==
    /\ creates[p].pc = "idle"
    /\ \E data \in CreateData :
           creates' = [creates EXCEPT ![p] =
                          [pc |-> "checking", data |-> data,
                           sent |-> <<DuplicateCheck(data)>>,
                           err |-> "none", result |-> {}]]
    /\ UNCHANGED <<companies, jobs, pc, op, arg, sent, err, result>>

\* the duplicate check answers: if (duplicateCheck.rows[0]) throw new
\* BadRequestError; otherwise the INSERT is sent
CreateChecked(p) ==
    /\ creates[p].pc = "checking"
    /\ LET c == creates[p]
           rows == DbSelectHandle(companies, c.sent[1].vals)
       IN  creates' = [creates EXCEPT ![p] =
               IF rows # {}
               THEN [c EXCEPT !.pc = "done", !.err = "BadRequestError"]
               ELSE [c EXCEPT !.pc = "inserting",
                              !.sent = Append(c.sent, CompanyInsert(c.data))]]
    /\ UNCHANGED <<companies, jobs, pc, op, arg, sent, err, result>>

\* the INSERT answers: the database refuses a handle it holds and the await
\* throws its error, which create does not catch; otherwise the row is
\* stored and returned
CreateInserted(p) ==
    /\ creates[p].pc = "inserting"
    /\ LET c == creates[p]
           vals == c.sent[2].vals
       IN  IF HandleTaken(companies, vals)
           THEN /\ creates' = [creates EXCEPT ![p] =
                       [c EXCEPT !.pc = "done", !.err = "DatabaseError"]]
                /\ UNCHANGED companies
           ELSE /\ companies' = DbInsertCompany(companies, vals)
                /\ creates' = [creates EXCEPT ![p] =
                       [c EXCEPT !.pc = "done",
                                 !.result = {CompanyOut(vals[1].s,
                                     [name |-> vals[2],
                                      num_employees |-> vals[4]])}]]
    /\ UNCHANGED <<jobs, pc, op, arg, sent, err, result>>

\* the caller takes the company or the error
CreateSettle(p) ==
    /\ creates[p].pc = "done"
    /\ creates' = [creates EXCEPT ![p] = NoCreate]
    /\ UNCHANGED <<companies, jobs, pc, op, arg, sent, err, result>>

NextCreate ==
    \E p \in Procs :
        \/ CreateCall(p)
        \/ CreateChecked(p)
        \/ CreateInserted(p)
        \/ CreateSettle(p)

\* concurrent Company.create calls on the companies table
SpecCreate == Init /\ [][NextCreate]_vars

(* ------------------------------------------------------------------ *)
(* C11                                                                 *)
(* ------------------------------------------------------------------ *)

\* C11: under any interleaving of concurrent Company.create calls, a call
\* that has ended either returned the company it stored or threw
\* BadRequestError (Duplicate): a violated uniqueness constraint on the
\* handle reaches the caller as BadRequestError and as no other error, and
\* the table never holds two companies with one handle.
C11_CreateStoresOrDuplicate ==
    /\ \A p \in Procs :
           creates[p].pc = "done" =>
               \/ /\ creates[p].err = "none"
                  /\ \E r \in creates[p].result :
                         /\ r.handle = creates[p].data.handle
                         /\ r.handle.s \in DOMAIN companies
               \/ creates[p].err = "BadRequestError"
    /\ \A h1, h2 \in DOMAIN companies : Str(h1) = Str(h2) => h1 = h2

====
